---- MODULE Spec2Model ----
(***************************************************************************)
(* Model of the nanotime crate (src/src/lib.rs): the NanoTime value type,  *)
(* its validating constructor, the epoch <-> civil-date conversions        *)
(* (Hinnant's civil_from_days / days_from_civil), the sub-second wrappers, *)
(* the signed differences and the platform clock read.                     *)
(*                                                                         *)
(* TLC's integers are 32 bits wide while the crate computes in u64, i64,   *)
(* u128 and i128.  Wide unsigned values are therefore kept as little-endian*)
(* sequences of 16-bit limbs without trailing zero limbs (<<>> is 0), so   *)
(* that "as u64" is "keep the low 4 limbs" and every overflow of the       *)
(* source's arithmetic is visible.  Values the source keeps in u8/u16/u32  *)
(* (and i64 values that provably stay below 2^31) are TLC integers.        *)
(***************************************************************************)
EXTENDS Integers, Sequences, FiniteSets, TLC

VARIABLES
    overflow_checks,  \* the build profile: TRUE = arithmetic overflow panics (debug),
                      \* FALSE = it wraps (release)
    a,                \* Option<NanoTime>: <<>> is None, <<t>> is Some(t)
    b,                \* Option<NanoTime>: the second operand of a difference
    ctor,             \* the constructor that produced a
    input,            \* the argument that constructor was called with
    op,               \* the last query applied to a (and b)
    out,              \* what that query returned
    monotonic,        \* the monotonic clock (Instant::now()), in nanoseconds from an
                      \* arbitrary origin
    watch,            \* Option<Elapsed>: <<>> before Elapsed::start(), <<[start |-> i]>> after
    reads             \* the last two results queried from watch, oldest first

vars == <<overflow_checks, a, b, ctor, input, op, out, monotonic, watch, reads>>

----------------------------------------------------------------------------
(* Wide naturals: little-endian base-65536 limbs, no trailing zero limb.   *)
(* A u64 has at most 4 limbs, a u128 at most 8.                            *)

RECURSIVE Norm(_)
Norm(s) ==
    IF s = <<>> THEN <<>>
    ELSE IF s[Len(s)] = 0 THEN Norm(SubSeq(s, 1, Len(s) - 1))
    ELSE s

\* A TLC integer 0 <= n < 2^31 as a wide natural.
Nat2Big(n) == Norm(<<n % 65536, n \div 65536>>)

\* Only for values below 2^31.
Big2Nat(s) ==
    IF s = <<>> THEN 0 ELSE IF Len(s) = 1 THEN s[1] ELSE s[1] + 65536 * s[2]

Head0(s) == IF s = <<>> THEN 0 ELSE s[1]
Tail0(s) == IF s = <<>> THEN <<>> ELSE Tail(s)

RECURSIVE AddRec(_, _, _)
AddRec(x, y, c) ==
    IF x = <<>> /\ y = <<>> THEN (IF c = 0 THEN <<>> ELSE <<c>>)
    ELSE <<(Head0(x) + Head0(y) + c) % 65536>>
         \o AddRec(Tail0(x), Tail0(y), (Head0(x) + Head0(y) + c) \div 65536)

BigAdd(x, y) == Norm(AddRec(x, y, 0))

\* x - y for x >= y.
RECURSIVE SubRec(_, _, _)
SubRec(x, y, c) ==
    IF x = <<>> THEN <<>>
    ELSE IF x[1] - Head0(y) - c < 0
         THEN <<x[1] - Head0(y) - c + 65536>> \o SubRec(Tail(x), Tail0(y), 1)
         ELSE <<x[1] - Head0(y) - c>> \o SubRec(Tail(x), Tail0(y), 0)

BigSub(x, y) == Norm(SubRec(x, y, 0))

\* x * m + c for one limb m.  A limb times a limb does not fit a TLC integer,
\* so m is taken a byte at a time: x[1]*m = lo + 256*hi.
MulLo(x1, m, c) == x1 * (m % 256) + ((x1 * (m \div 256)) % 256) * 256 + c
MulCarry(x1, m, c) == MulLo(x1, m, c) \div 65536 + (x1 * (m \div 256)) \div 256

RECURSIVE MulLimb(_, _, _)
MulLimb(x, m, c) ==
    IF x = <<>> THEN Nat2Big(c)
    ELSE <<MulLo(x[1], m, c) % 65536>> \o MulLimb(Tail(x), m, MulCarry(x[1], m, c))

RECURSIVE MulRec(_, _)
MulRec(x, y) ==
    IF y = <<>> THEN <<>>
    ELSE AddRec(MulLimb(x, y[1], 0), <<0>> \o MulRec(x, Tail(y)), 0)

BigMul(x, y) == Norm(MulRec(x, y))

\* Long division by a TLC integer 0 < d < 2^23, a byte of the dividend at
\* a time so that remainder * 256 + byte stays below 2^31.  RemLimb and
\* QuotLimb are the remainder and the quotient limb of r * 65536 + limb.
RemLimb(r, limb, d) ==
    ((((r * 256) + (limb \div 256)) % d) * 256 + (limb % 256)) % d

QuotLimb(r, limb, d) ==
    (((r * 256) + (limb \div 256)) \div d) * 256
    + (((((r * 256) + (limb \div 256)) % d) * 256 + (limb % 256)) \div d)

RECURSIVE Rem(_, _)
Rem(x, d) == IF x = <<>> THEN 0 ELSE RemLimb(Rem(Tail(x), d), x[1], d)

RECURSIVE Quot(_, _)
Quot(x, d) ==
    IF x = <<>> THEN <<>>
    ELSE <<QuotLimb(Rem(Tail(x), d), x[1], d)>> \o Quot(Tail(x), d)

\* Quotient and remainder by d < 2^23, or by a larger multiple of 1000
\* below 2^31 (10^9), divided out in two steps.
BigDiv(x, d) ==
    IF d < 8388608 THEN Norm(Quot(x, d))
    ELSE Norm(Quot(Norm(Quot(x, 1000)), d \div 1000))

BigMod(x, d) ==
    IF d < 8388608 THEN Rem(x, d)
    ELSE Rem(Norm(Quot(x, 1000)), d \div 1000) * 1000 + Rem(x, 1000)

RECURSIVE LessRec(_, _, _)
LessRec(x, y, i) ==
    IF i = 0 THEN FALSE
    ELSE IF x[i] # y[i] THEN x[i] < y[i]
    ELSE LessRec(x, y, i - 1)

BigLess(x, y) ==
    IF Len(x) # Len(y) THEN Len(x) < Len(y) ELSE LessRec(x, y, Len(x))

BigLeq(x, y) == x = y \/ BigLess(x, y)

\* x mod 65536^n: the low n limbs.
BigTrunc(x, n) == Norm(SubSeq(x, 1, IF Len(x) < n THEN Len(x) ELSE n))

\* 65536^n.
Pow16(n) == [i \in 1..(n + 1) |-> IF i = n + 1 THEN 1 ELSE 0]

\* hi * 10^9 + lo, to write wide literals in decimal.
Dec(hi, lo) == BigAdd(BigMul(Nat2Big(hi), Nat2Big(1000000000)), Nat2Big(lo))

----------------------------------------------------------------------------
(* Wide signed values: sign and magnitude, zero is never negative.         *)

Signed(neg, mag) == [neg |-> neg /\ mag # <<>>, mag |-> mag]

SNeg(x) == Signed(~x.neg, x.mag)

SAdd(x, y) ==
    IF x.neg = y.neg THEN Signed(x.neg, BigAdd(x.mag, y.mag))
    ELSE IF BigLess(x.mag, y.mag) THEN Signed(y.neg, BigSub(y.mag, x.mag))
    ELSE Signed(x.neg, BigSub(x.mag, y.mag))

SSub(x, y) == SAdd(x, SNeg(y))

SLess(x, y) ==
    IF x.neg # y.neg THEN x.neg
    ELSE IF x.neg THEN BigLess(y.mag, x.mag)
    ELSE BigLess(x.mag, y.mag)

\* The two's-complement reading of an unsigned value of n limbs ("as i64" of a
\* u64 for n = 4, "as i128" of a u128 for n = 8).
AsSigned(x, n) ==
    IF Len(x) = n /\ x[n] >= 32768 THEN Signed(TRUE, BigSub(Pow16(n), x))
    ELSE Signed(FALSE, x)

\* The unsigned n-limb bit pattern of a signed value ("as u64" of an i64).
AsUnsigned(x, n) ==
    IF x.neg THEN BigTrunc(BigSub(Pow16(n), BigTrunc(x.mag, n)), n)
    ELSE BigTrunc(x.mag, n)

\* Whether a signed value fits the signed type of n limbs.
FitsSigned(x, n) ==
    IF x.neg THEN BigLeq(BigAdd(x.mag, x.mag), Pow16(n))
    ELSE BigLess(BigAdd(x.mag, x.mag), Pow16(n))

----------------------------------------------------------------------------
(* Results of arithmetic that can overflow: a value, or a panic.           *)

Ok(v) == [panic |-> FALSE, v |-> v]
Panic == [panic |-> TRUE, v |-> <<>>]

\* An unsigned result r of n limbs' type: in range it is returned; out of range
\* the build panics (overflow checks on) or keeps the low n limbs (off).
Unsigned(r, n) ==
    IF Len(r) <= n THEN Ok(r)
    ELSE IF overflow_checks THEN Panic
    ELSE Ok(BigTrunc(r, n))

UAdd(x, y, n) == IF x.panic \/ y.panic THEN Panic ELSE Unsigned(BigAdd(x.v, y.v), n)
UMul(x, y, n) == IF x.panic \/ y.panic THEN Panic ELSE Unsigned(BigMul(x.v, y.v), n)

\* A signed difference in the signed type of n limbs.
SignedSub(x, y, n) ==
    IF x.panic \/ y.panic THEN Panic
    ELSE LET r == SSub(x.v, y.v)
         IN  IF FitsSigned(r, n) THEN Ok(r)
             ELSE IF overflow_checks THEN Panic
             ELSE Ok(AsSigned(AsUnsigned(r, n), n))

\* Rust's integer division truncates toward zero.
TruncDiv(x, y) == IF x >= 0 THEN x \div y ELSE -((-x) \div y)

----------------------------------------------------------------------------
(* The NanoTime struct and the calendar arithmetic.                        *)

NanoTime(year, month, day, hour, minute, second, nanosecond) ==
    [year |-> year, month |-> month, day |-> day, hour |-> hour,
     minute |-> minute, second |-> second, nanosecond |-> nanosecond]

None == <<>>
Some(t) == <<t>>

\* A leap rule without the century exception.
is_leap_year_no_century(year) == year % 4 = 0

is_leap_year(year) ==
    (year % 4 = 0 /\ year % 100 # 0) \/ year % 400 = 0

days_in_month(year, month) ==
    IF month \in {1, 3, 5, 7, 8, 10, 12} THEN 31
    ELSE IF month \in {4, 6, 9, 11} THEN 30
    ELSE IF month = 2 THEN (IF is_leap_year(year) THEN 29 ELSE 28)
    ELSE 0

\* epoch_to_date with the month proxy compared by <= instead of <, so that
\* proxy 10 (January) becomes month 13.
epoch_to_date_month_off_by_one(secs) ==
    LET day_secs == BigMod(secs, 86400)
        hour     == (day_secs \div 3600) % 256
        minute   == ((day_secs % 3600) \div 60) % 256
        second   == (day_secs % 60) % 256
        z        == BigAdd(BigDiv(secs, 86400), Nat2Big(719468))
        era      == Big2Nat(BigDiv(z, 146097))
        doe      == Big2Nat(BigSub(z, BigMul(Nat2Big(era), Nat2Big(146097))))
        yoe      == (doe - doe \div 1460 + doe \div 36524 - doe \div 146096) \div 365
        y        == BigAdd(Nat2Big(yoe), BigMul(Nat2Big(era), Nat2Big(400)))
        doy      == doe - (365 * yoe + yoe \div 4 - yoe \div 100)
        mp       == (5 * doy + 2) \div 153
        day      == (doy - (153 * mp + 2) \div 5 + 1) % 256
        month    == (IF mp <= 10 THEN mp + 3 ELSE mp - 9) % 256
        year     == Big2Nat(BigTrunc(IF month <= 2 THEN BigAdd(y, Nat2Big(1)) ELSE y, 1))
    IN  NanoTime(year, month, day, hour, minute, second, 0)

\* epoch_to_date with the year of the era taken by the four-year rule alone,
\* without the century corrections.
epoch_to_date_no_century(secs) ==
    LET day_secs == BigMod(secs, 86400)
        hour     == (day_secs \div 3600) % 256
        minute   == ((day_secs % 3600) \div 60) % 256
        second   == (day_secs % 60) % 256
        z        == BigAdd(BigDiv(secs, 86400), Nat2Big(719468))
        era      == Big2Nat(BigDiv(z, 146097))
        doe      == Big2Nat(BigSub(z, BigMul(Nat2Big(era), Nat2Big(146097))))
        yoe      == (doe - doe \div 1460) \div 365
        y        == BigAdd(Nat2Big(yoe), BigMul(Nat2Big(era), Nat2Big(400)))
        doy      == doe - (365 * yoe + yoe \div 4 - yoe \div 100)
        mp       == (5 * doy + 2) \div 153
        day      == (doy - (153 * mp + 2) \div 5 + 1) % 256
        month    == (IF mp < 10 THEN mp + 3 ELSE mp - 9) % 256
        year     == Big2Nat(BigTrunc(IF month <= 2 THEN BigAdd(y, Nat2Big(1)) ELSE y, 1))
    IN  NanoTime(year, month, day, hour, minute, second, 0)

\* secs is a u64.  z = secs / 86400 + 719468 is at least 719468, so the
\* source's branch for z < 0 is never taken and era, doe fit 32 bits.
epoch_to_date(secs) ==
    LET day_secs == BigMod(secs, 86400)
        hour     == (day_secs \div 3600) % 256
        minute   == ((day_secs % 3600) \div 60) % 256
        second   == (day_secs % 60) % 256
        z        == BigAdd(BigDiv(secs, 86400), Nat2Big(719468))
        era      == Big2Nat(BigDiv(z, 146097))
        doe      == Big2Nat(BigSub(z, BigMul(Nat2Big(era), Nat2Big(146097))))
        yoe      == (doe - doe \div 1460 + doe \div 36524 - doe \div 146096) \div 365
        y        == BigAdd(Nat2Big(yoe), BigMul(Nat2Big(era), Nat2Big(400)))
        doy      == doe - (365 * yoe + yoe \div 4 - yoe \div 100)
        mp       == (5 * doy + 2) \div 153
        day      == (doy - (153 * mp + 2) \div 5 + 1) % 256
        month    == (IF mp < 10 THEN mp + 3 ELSE mp - 9) % 256
        year     == Big2Nat(BigTrunc(IF month <= 2 THEN BigAdd(y, Nat2Big(1)) ELSE y, 1))
    IN  NanoTime(year, month, day, hour, minute, second, 0)

\* The steps with the century term left out of the day of the year.
epoch_to_date_steps_no_century(secs) ==
    LET day_secs == BigMod(secs, 86400)
        z        == BigAdd(BigDiv(secs, 86400), Nat2Big(719468))
        era      == Big2Nat(BigDiv(z, 146097))
        doe      == Big2Nat(BigSub(z, BigMul(Nat2Big(era), Nat2Big(146097))))
        yoe      == (doe - doe \div 1460 + doe \div 36524 - doe \div 146096) \div 365
        y        == BigAdd(Nat2Big(yoe), BigMul(Nat2Big(era), Nat2Big(400)))
        doy      == doe - (365 * yoe + yoe \div 4)
        mp       == (5 * doy + 2) \div 153
        day      == doy - (153 * mp + 2) \div 5 + 1
        month    == IF mp < 10 THEN mp + 3 ELSE mp - 9
    IN  [z |-> z, era |-> era, doe |-> doe,
         yoe_sub1 |-> doe - doe \div 1460,
         yoe_sub2 |-> doe - doe \div 1460 + doe \div 36524 - doe \div 146096,
         yoe |-> yoe, y |-> y, doy |-> doy, mp |-> mp,
         day_sub |-> doy - (153 * mp + 2) \div 5,
         month_sub |-> IF mp < 10 THEN mp + 3 ELSE mp - 9,
         hour |-> day_secs \div 3600,
         minute |-> (day_secs % 3600) \div 60,
         second |-> day_secs % 60,
         day |-> day, month |-> month,
         year |-> IF month % 256 <= 2 THEN BigAdd(y, Nat2Big(1)) ELSE y]

\* The value every step of epoch_to_date has before it is stored in its type
\* (i64: z, era, y; u32: doe, yoe, doy, mp and the differences they are made
\* of; and, before their "as u8" / "as u16" casts, the output fields).  z, y
\* and year are wide, the others stay below 2^31.
epoch_to_date_steps(secs) ==
    LET day_secs == BigMod(secs, 86400)
        z        == BigAdd(BigDiv(secs, 86400), Nat2Big(719468))
        era      == Big2Nat(BigDiv(z, 146097))
        doe      == Big2Nat(BigSub(z, BigMul(Nat2Big(era), Nat2Big(146097))))
        yoe      == (doe - doe \div 1460 + doe \div 36524 - doe \div 146096) \div 365
        y        == BigAdd(Nat2Big(yoe), BigMul(Nat2Big(era), Nat2Big(400)))
        doy      == doe - (365 * yoe + yoe \div 4 - yoe \div 100)
        mp       == (5 * doy + 2) \div 153
        day      == doy - (153 * mp + 2) \div 5 + 1
        month    == IF mp < 10 THEN mp + 3 ELSE mp - 9
    IN  [z |-> z, era |-> era, doe |-> doe,
         yoe_sub1 |-> doe - doe \div 1460,
         yoe_sub2 |-> doe - doe \div 1460 + doe \div 36524 - doe \div 146096,
         yoe |-> yoe, y |-> y, doy |-> doy, mp |-> mp,
         day_sub |-> doy - (153 * mp + 2) \div 5,
         month_sub |-> IF mp < 10 THEN mp + 3 ELSE mp - 9,
         hour |-> day_secs \div 3600,
         minute |-> (day_secs % 3600) \div 60,
         second |-> day_secs % 60,
         day |-> day, month |-> month,
         year |-> IF month % 256 <= 2 THEN BigAdd(y, Nat2Big(1)) ELSE y]

new(year, month, day, hour, minute, second, nanosecond) ==
    IF ~(month \in 1..12) THEN None
    ELSE IF day < 1 \/ day > days_in_month(year, month) THEN None
    ELSE IF hour > 23 THEN None
    ELSE IF minute > 59 THEN None
    ELSE IF second > 59 THEN None
    ELSE IF nanosecond > 999999999 THEN None
    ELSE Some(NanoTime(year, month, day, hour, minute, second, nanosecond))

year(self) == self.year
month(self) == self.month
day(self) == self.day
hour(self) == self.hour
minute(self) == self.minute
second(self) == self.second
nanosecond(self) == self.nanosecond
\* The millisecond taken with the microsecond's divisor.
millisecond_wrong_divisor(self) == (self.nanosecond \div 1000) % 65536

millisecond(self) == (self.nanosecond \div 1000000) % 65536
microsecond(self) == self.nanosecond \div 1000

from_epoch(secs) == epoch_to_date(secs)

\* nanos is a u128.
from_epoch_nanos(nanos) ==
    LET secs      == BigTrunc(BigDiv(nanos, 1000000000), 4)
        sub_nanos == BigMod(nanos, 1000000000)
    IN  [epoch_to_date(secs) EXCEPT !.nanosecond = sub_nanos]

\* from_epoch_ms with the remainder scaled as if it were microseconds.
from_epoch_ms_wrong_scale(ms) ==
    LET secs   == BigDiv(ms, 1000)
        sub_ms == BigMod(ms, 1000)
    IN  [epoch_to_date(secs) EXCEPT !.nanosecond = sub_ms * 1000]

\* ms is a u64.
from_epoch_ms(ms) ==
    LET secs   == BigDiv(ms, 1000)
        sub_ms == BigMod(ms, 1000)
    IN  [epoch_to_date(secs) EXCEPT !.nanosecond = sub_ms * 1000000]

\* us is a u128.
from_epoch_us(us) ==
    LET secs   == BigTrunc(BigDiv(us, 1000000), 4)
        sub_us == BigMod(us, 1000000)
    IN  [epoch_to_date(secs) EXCEPT !.nanosecond = sub_us * 1000]

\* days_from_civil with February counted among the months from March on.
days_from_civil_feb_shift(self) ==
    LET y   == IF self.month <= 2 THEN self.year - 1 ELSE self.year
        era == TruncDiv(IF y >= 0 THEN y ELSE y - 399, 400)
        yoe == y - era * 400
        m   == self.month
        d   == self.day
        doy == (153 * (IF m >= 2 THEN m - 3 ELSE m + 9) + 2) \div 5 + d - 1
        doe == yoe * 365 + yoe \div 4 - yoe \div 100 + doy
    IN  era * 146097 + doe - 719468

\* The day count of days_from_civil, an i64 that stays within 32 bits for a
\* 16-bit year.
days_from_civil(self) ==
    LET y   == IF self.month <= 2 THEN self.year - 1 ELSE self.year
        era == TruncDiv(IF y >= 0 THEN y ELSE y - 399, 400)
        yoe == y - era * 400
        m   == self.month
        d   == self.day
        doy == (153 * (IF m > 2 THEN m - 3 ELSE m + 9) + 2) \div 5 + d - 1
        doe == yoe * 365 + yoe \div 4 - yoe \div 100 + doy
    IN  era * 146097 + doe - 719468

\* A u64, or a panic when the multiplication or a sum overflows.
to_epoch_secs(self) ==
    LET days   == days_from_civil(self)
        days64 == AsUnsigned(Signed(days < 0, Nat2Big(IF days < 0 THEN -days ELSE days)), 4)
    IN  UAdd(UAdd(UAdd(UMul(Ok(days64), Ok(Nat2Big(86400)), 4),
                       Ok(Nat2Big(self.hour * 3600)), 4),
                  Ok(Nat2Big(self.minute * 60)), 4),
             Ok(Nat2Big(self.second)), 4)

\* A u128.
to_epoch_nanos(self) ==
    UAdd(UMul(to_epoch_secs(self), Ok(Nat2Big(1000000000)), 8),
         Ok(Nat2Big(self.nanosecond)), 8)

\* A u64.
to_epoch_ms(self) ==
    UAdd(UMul(to_epoch_secs(self), Ok(Nat2Big(1000)), 4),
         Ok(Nat2Big(self.nanosecond \div 1000000)), 4)

\* A u128.
to_epoch_us(self) ==
    UAdd(UMul(to_epoch_secs(self), Ok(Nat2Big(1000000)), 8),
         Ok(Nat2Big(microsecond(self))), 8)

\* "x as i64" of a u64 result, "x as i128" of a u128 result.
Cast(x, n) == IF x.panic THEN Panic ELSE Ok(AsSigned(x.v, n))

diff_secs(self, other) ==
    SignedSub(Cast(to_epoch_secs(self), 4), Cast(to_epoch_secs(other), 4), 4)

diff_nanos(self, other) ==
    SignedSub(Cast(to_epoch_nanos(self), 8), Cast(to_epoch_nanos(other), 8), 8)

diff_ms(self, other) ==
    SignedSub(Cast(to_epoch_ms(self), 4), Cast(to_epoch_ms(other), 4), 4)

diff_us(self, other) ==
    SignedSub(Cast(to_epoch_us(self), 8), Cast(to_epoch_us(other), 8), 8)

\* The fields with month declared before year.
Fields_month_first(t) ==
    <<t.month, t.year, t.day, t.hour, t.minute, t.second, t.nanosecond>>

\* #[derive(PartialOrd, Ord)]: lexicographic in the order the fields are declared.
Fields(t) == <<t.year, t.month, t.day, t.hour, t.minute, t.second, t.nanosecond>>

RECURSIVE LexCmp(_, _)
LexCmp(x, y) ==
    IF x = <<>> THEN "Equal"
    ELSE IF x[1] < y[1] THEN "Less"
    ELSE IF x[1] > y[1] THEN "Greater"
    ELSE LexCmp(Tail(x), Tail(y))

cmp(self, other) == LexCmp(Fields(self), Fields(other))

----------------------------------------------------------------------------
(* Formatting.  A String is a TLA+ string.                                 *)

Digit(d) == SubSeq("0123456789", d + 1, d + 1)

\* "{}" of an unsigned integer below 2^31.
RECURSIVE Decimal(_)
Decimal(n) == IF n < 10 THEN Digit(n) ELSE Decimal(n \div 10) \o Digit(n % 10)

\* "{}" of a wide unsigned integer.
RECURSIVE BigDigits(_)
BigDigits(x) ==
    IF x = <<>> THEN "" ELSE BigDigits(BigDiv(x, 10)) \o Digit(BigMod(x, 10))

BigDecimal(x) == IF x = <<>> THEN "0" ELSE BigDigits(x)

\* "{:0width}": zeros on the left up to width, never a digit dropped.
RECURSIVE ZeroPad(_, _)
ZeroPad(s, width) == IF Len(s) >= width THEN s ELSE ZeroPad("0" \o s, width)

date(self) ==
    ZeroPad(Decimal(self.year), 4) \o "-" \o ZeroPad(Decimal(self.month), 2)
        \o "-" \o ZeroPad(Decimal(self.day), 2)

\* Display with the millisecond written without padding.
fmt_unpadded_millis(self) ==
    ZeroPad(Decimal(self.hour), 2) \o ":" \o ZeroPad(Decimal(self.minute), 2)
        \o ":" \o ZeroPad(Decimal(self.second), 2)
        \o "." \o Decimal(millisecond(self))

\* impl fmt::Display for NanoTime.
fmt(self) ==
    ZeroPad(Decimal(self.hour), 2) \o ":" \o ZeroPad(Decimal(self.minute), 2)
        \o ":" \o ZeroPad(Decimal(self.second), 2)
        \o "." \o ZeroPad(Decimal(millisecond(self)), 3)

datetime(self) == date(self) \o " " \o fmt(self)

\* datetime_fmt with the precision clamped to 6 instead of 9.
datetime_fmt_clamp_micros(self, precision) ==
    LET p == IF precision < 6 THEN precision ELSE 6
    IN  IF p = 0
        THEN date(self) \o " " \o ZeroPad(Decimal(self.hour), 2)
                \o ":" \o ZeroPad(Decimal(self.minute), 2)
                \o ":" \o ZeroPad(Decimal(self.second), 2)
        ELSE date(self) \o " " \o ZeroPad(Decimal(self.hour), 2)
                \o ":" \o ZeroPad(Decimal(self.minute), 2)
                \o ":" \o ZeroPad(Decimal(self.second), 2)
                \o "." \o SubSeq(ZeroPad(Decimal(self.nanosecond), 9), 1, p)

\* precision is a u8.
datetime_fmt(self, precision) ==
    LET p == IF precision < 9 THEN precision ELSE 9
    IN  IF p = 0
        THEN date(self) \o " " \o ZeroPad(Decimal(self.hour), 2)
                \o ":" \o ZeroPad(Decimal(self.minute), 2)
                \o ":" \o ZeroPad(Decimal(self.second), 2)
        ELSE date(self) \o " " \o ZeroPad(Decimal(self.hour), 2)
                \o ":" \o ZeroPad(Decimal(self.minute), 2)
                \o ":" \o ZeroPad(Decimal(self.second), 2)
                \o "." \o SubSeq(ZeroPad(Decimal(self.nanosecond), 9), 1, p)

\* The label of a difference of diff seconds, a u64 other than 0.
relative_label(diff) ==
    IF BigLess(diff, Nat2Big(60)) THEN BigDecimal(diff) \o "s"
    ELSE IF BigLess(diff, Nat2Big(3600)) THEN BigDecimal(BigDiv(diff, 60)) \o "m"
    ELSE IF BigLess(diff, Nat2Big(86400)) THEN BigDecimal(BigDiv(diff, 3600)) \o "h"
    ELSE BigDecimal(BigDiv(diff, 86400)) \o "d"

\* A String, or the panic of to_epoch_secs.  The subtraction is of the
\* smaller from the larger and cannot overflow.
relative_to(self, other) ==
    IF to_epoch_secs(self).panic \/ to_epoch_secs(other).panic THEN Panic
    ELSE IF to_epoch_secs(self).v = to_epoch_secs(other).v THEN Ok("just now")
    ELSE IF BigLess(to_epoch_secs(self).v, to_epoch_secs(other).v)
         THEN Ok(relative_label(BigSub(to_epoch_secs(other).v, to_epoch_secs(self).v))
                 \o " ago")
    ELSE Ok("in " \o relative_label(BigSub(to_epoch_secs(self).v, to_epoch_secs(other).v)))

----------------------------------------------------------------------------
(* The local clock read, platform::now on unix.  rc is clock_gettime's     *)
(* return value, tv_nsec its nanosecond part, tm_null whether localtime_r  *)
(* returned a null pointer, tm the broken-down local time it filled in.    *)

platform_now(rc, tv_nsec, tm_null, tm) ==
    IF rc # 0 THEN NanoTime(0, 0, 0, 0, 0, 0, 0)
    ELSE IF tm_null THEN NanoTime(0, 0, 0, 0, 0, 0, 0)
    ELSE NanoTime((tm.tm_year + 1900) % 65536, (tm.tm_mon + 1) % 256,
                  tm.tm_mday % 256, tm.tm_hour % 256, tm.tm_min % 256,
                  tm.tm_sec % 256, tv_nsec)

\* SystemTime::now().duration_since(UNIX_EPOCH).unwrap_or_default(): a clock
\* before the epoch gives the zero duration.
now_utc(before_epoch, secs, nanos) ==
    IF before_epoch THEN [epoch_to_date(<<>>) EXCEPT !.nanosecond = 0]
    ELSE [epoch_to_date(secs) EXCEPT !.nanosecond = nanos]

----------------------------------------------------------------------------
(* The stopwatch.  An Instant is the monotonic clock's reading in          *)
(* nanoseconds; a Duration is a number of nanoseconds.                     *)

Elapsed(start) == [start |-> start]

\* self.start.elapsed(): Instant::now() - start, zero when start is later.
elapsed(self, now) == IF now >= self.start THEN now - self.start ELSE 0

\* The millisecond taken from the sub-second part of the duration only.
elapsed_ms_subsec(self, now) == (elapsed(self, now) % 1000000000) \div 1000000

elapsed_ms(self, now) == elapsed(self, now) \div 1000000
elapsed_us(self, now) == elapsed(self, now) \div 1000
elapsed_nanos(self, now) == elapsed(self, now)

----------------------------------------------------------------------------
(* The inputs the operations are applied to.                               *)

\* How far the sampled days and years extend around each boundary.
DayWindow == 2
YearWindow == 1
\* The days after 1970-01-01 that are swept one by one.
MaxDay == 60

\* Day number (days since 1970-01-01) of 1 January of year y, counted with
\* the Gregorian leap rule.
LeapsBefore(y) == (y - 1) \div 4 - (y - 1) \div 100 + (y - 1) \div 400
DaysBeforeYear(y) == 365 * (y - 1970) + LeapsBefore(y) - LeapsBefore(1970)

\* Years whose start, end of February and end are sampled: leap and common
\* years, century years, the last 16-bit year and years past it.
BoundaryYears == {1971, 1972, 2000, 2100, 2400, 9999, 65535, 65536, 65636}

SampleDays ==
    (0..MaxDay) \cup
    { DaysBeforeYear(y) + off + k :
        y \in BoundaryYears, off \in {0, 59, 365}, k \in (-DayWindow)..DayWindow }

SampleTods == {0, 6400, 86399}

U64Max == BigSub(Pow16(4), Nat2Big(1))
U128Max == BigSub(Pow16(8), Nat2Big(1))

SecsOf(d, tod) == BigAdd(BigMul(Nat2Big(d), Nat2Big(86400)), Nat2Big(tod))

\* u64 arguments of from_epoch.
EpochSecs ==
    { SecsOf(d, tod) : d \in SampleDays, tod \in SampleTods } \cup
    { BigSub(U64Max, Nat2Big(k * 86400)) : k \in 0..DayWindow } \cup
    { Pow16(3), BigSub(Pow16(3), Nat2Big(1)), Nat2Big(1000000000) }

\* The seconds the sub-second constructors and the UTC clock are sampled at.
SubSecs ==
    { SecsOf(DaysBeforeYear(y) + off + k, tod) :
        y \in {1970, 2000, 65535}, off \in {0, 59, 365},
        k \in 0..DayWindow, tod \in {0, 86399} }
    \cup { SecsOf(DaysBeforeYear(65536) - 1, 86399) }

EpochMs ==
    { BigAdd(BigMul(s, Nat2Big(1000)), Nat2Big(r)) : s \in SubSecs, r \in {0, 1, 999} }
    \cup {U64Max}

EpochUs ==
    { BigAdd(BigMul(s, Nat2Big(1000000)), Nat2Big(r)) : s \in SubSecs, r \in {0, 1, 999999} }
    \cup {U64Max, U128Max}

EpochNanos ==
    { BigAdd(BigMul(s, Nat2Big(1000000000)), Nat2Big(r)) :
        s \in SubSecs, r \in {0, 1, 999999999} }
    \cup {U64Max, U128Max}

\* Arguments of NanoTime::new, valid and invalid in every field.
SampleYears ==
    { y + k : y \in {0, 1900, 1970, 2000, 2024, 65535}, k \in (-YearWindow)..YearWindow }
    \cap (0..65535)
SampleMonths == 0..13
SampleMdays == {0, 1, 28, 29, 30, 31, 32}
SampleTimes ==
    { <<0, 0, 0, 0>>, <<23, 59, 59, 999999999>>,
      <<24, 0, 0, 0>>, <<0, 60, 0, 0>>, <<0, 0, 60, 0>>, <<0, 0, 0, 1000000000>>,
      <<255, 255, 255, 2147483647>> }

FieldArgs ==
    { <<y, mo, d, t[1], t[2], t[3], t[4]>> :
        y \in SampleYears, mo \in SampleMonths, d \in SampleMdays, t \in SampleTimes }

\* What the C library reports for a local time.
SampleTm ==
    { [tm_year |-> 126, tm_mon |-> 1, tm_mday |-> 22, tm_hour |-> 9, tm_min |-> 5, tm_sec |-> 3],
      [tm_year |-> 100, tm_mon |-> 1, tm_mday |-> 29, tm_hour |-> 23, tm_min |-> 59, tm_sec |-> 59],
      [tm_year |-> 70, tm_mon |-> 0, tm_mday |-> 1, tm_hour |-> 0, tm_min |-> 0, tm_sec |-> 0],
      [tm_year |-> 199, tm_mon |-> 11, tm_mday |-> 31, tm_hour |-> 12, tm_min |-> 0, tm_sec |-> 0] }

----------------------------------------------------------------------------
(* One run: a timestamp is constructed, then queried.                      *)

NoOut == Ok(<<>>)

Init ==
    /\ overflow_checks \in BOOLEAN
    /\ a = None
    /\ b = None
    /\ ctor = "none"
    /\ input = <<>>
    /\ op = "none"
    /\ out = NoOut
    /\ monotonic = 0
    /\ watch = None
    /\ reads = <<>>

New ==
    /\ ctor = "none"
    /\ \E f \in FieldArgs :
        /\ input' = f
        /\ a' = new(f[1], f[2], f[3], f[4], f[5], f[6], f[7])
    /\ ctor' = "new"
    /\ UNCHANGED <<overflow_checks, b, op, out, monotonic, watch, reads>>

FromEpoch ==
    /\ ctor = "none"
    /\ \E secs \in EpochSecs :
        /\ input' = secs
        /\ a' = Some(from_epoch(secs))
    /\ ctor' = "from_epoch"
    /\ UNCHANGED <<overflow_checks, b, op, out, monotonic, watch, reads>>

FromEpochNanos ==
    /\ ctor = "none"
    /\ \E nanos \in EpochNanos :
        /\ input' = nanos
        /\ a' = Some(from_epoch_nanos(nanos))
    /\ ctor' = "from_epoch_nanos"
    /\ UNCHANGED <<overflow_checks, b, op, out, monotonic, watch, reads>>

FromEpochMs ==
    /\ ctor = "none"
    /\ \E ms \in EpochMs :
        /\ input' = ms
        /\ a' = Some(from_epoch_ms(ms))
    /\ ctor' = "from_epoch_ms"
    /\ UNCHANGED <<overflow_checks, b, op, out, monotonic, watch, reads>>

FromEpochUs ==
    /\ ctor = "none"
    /\ \E us \in EpochUs :
        /\ input' = us
        /\ a' = Some(from_epoch_us(us))
    /\ ctor' = "from_epoch_us"
    /\ UNCHANGED <<overflow_checks, b, op, out, monotonic, watch, reads>>

Now ==
    /\ ctor = "none"
    /\ \E rc \in {0, -1}, tv_nsec \in {0, 999999999}, tm_null \in BOOLEAN, tm \in SampleTm :
        /\ input' = <<rc, tv_nsec, tm_null, tm>>
        /\ a' = Some(platform_now(rc, tv_nsec, tm_null, tm))
    /\ ctor' = "now"
    /\ UNCHANGED <<overflow_checks, b, op, out, monotonic, watch, reads>>

NowUtc ==
    /\ ctor = "none"
    /\ \E before_epoch \in BOOLEAN, secs \in SubSecs, nanos \in {0, 999999999} :
        /\ input' = <<before_epoch, secs, nanos>>
        /\ a' = Some(now_utc(before_epoch, secs, nanos))
    /\ ctor' = "now_utc"
    /\ UNCHANGED <<overflow_checks, b, op, out, monotonic, watch, reads>>

\* A query needs a timestamp and is the last step of a run.
CanQuery == a # None /\ op = "none"

ToEpochSecs ==
    /\ CanQuery
    /\ op' = "to_epoch_secs"
    /\ out' = to_epoch_secs(a[1])
    /\ UNCHANGED <<overflow_checks, a, b, ctor, input, monotonic, watch, reads>>

ToEpochNanos ==
    /\ CanQuery
    /\ op' = "to_epoch_nanos"
    /\ out' = to_epoch_nanos(a[1])
    /\ UNCHANGED <<overflow_checks, a, b, ctor, input, monotonic, watch, reads>>

ToEpochMs ==
    /\ CanQuery
    /\ op' = "to_epoch_ms"
    /\ out' = to_epoch_ms(a[1])
    /\ UNCHANGED <<overflow_checks, a, b, ctor, input, monotonic, watch, reads>>

ToEpochUs ==
    /\ CanQuery
    /\ op' = "to_epoch_us"
    /\ out' = to_epoch_us(a[1])
    /\ UNCHANGED <<overflow_checks, a, b, ctor, input, monotonic, watch, reads>>

Accessors ==
    /\ CanQuery
    /\ op' = "accessors"
    /\ out' = Ok([year |-> year(a[1]), month |-> month(a[1]), day |-> day(a[1]),
                  hour |-> hour(a[1]), minute |-> minute(a[1]),
                  second |-> second(a[1]), nanosecond |-> nanosecond(a[1]),
                  millisecond |-> millisecond(a[1]),
                  microsecond |-> microsecond(a[1])])
    /\ UNCHANGED <<overflow_checks, a, b, ctor, input, monotonic, watch, reads>>

\* The u8 precisions datetime_fmt is called with.
Precisions == {0, 1, 3, 6, 8, 9, 10, 255}

DatetimeFmt ==
    /\ CanQuery
    /\ op' = "datetime_fmt"
    /\ \E precision \in Precisions :
        out' = Ok([precision |-> precision, text |-> datetime_fmt(a[1], precision)])
    /\ UNCHANGED <<overflow_checks, a, b, ctor, input, monotonic, watch, reads>>

\* date(), to_string() and datetime() of one timestamp.
Format ==
    /\ CanQuery
    /\ op' = "format"
    /\ out' = Ok([date |-> date(a[1]), display |-> fmt(a[1]), datetime |-> datetime(a[1])])
    /\ UNCHANGED <<overflow_checks, a, b, ctor, input, monotonic, watch, reads>>

Next ==
    \/ New
    \/ FromEpoch
    \/ FromEpochNanos
    \/ FromEpochMs
    \/ FromEpochUs
    \/ Now
    \/ NowUtc
    \/ ToEpochSecs
    \/ ToEpochNanos
    \/ ToEpochMs
    \/ ToEpochUs
    \/ Accessors
    \/ DatetimeFmt
    \/ Format

Spec == Init /\ [][Next]_vars

----------------------------------------------------------------------------
(* Two timestamps are constructed, then compared or subtracted.            *)

\* How many years on each side of 1970 the operands are taken from.
PairWindow == 1

PairYears == { 1970 + k : k \in (-PairWindow)..PairWindow } \cup {2000, 65535}

PairArgs ==
    { <<y, md[1], md[2], t[1], t[2], t[3], ns>> :
        y \in PairYears, md \in {<<1, 1>>, <<2, 28>>, <<12, 31>>},
        t \in {<<0, 0, 0>>, <<23, 59, 59>>}, ns \in {0, 999999999} }

\* Operands a few seconds, minutes, hours or one day apart, on both sides of
\* the epoch.
NearArgs ==
    { <<md[1], md[2], md[3], t[1], t[2], t[3], 0>> :
        md \in {<<1969, 12, 31>>, <<1970, 1, 1>>, <<1970, 1, 2>>},
        t \in {<<0, 0, 0>>, <<0, 0, 1>>, <<0, 0, 59>>, <<0, 1, 0>>, <<0, 59, 59>>,
               <<1, 0, 0>>, <<23, 59, 59>>} }

PairInputs == (PairArgs \X PairArgs) \cup (NearArgs \X NearArgs)

NewPair ==
    /\ ctor = "none"
    /\ \E p \in PairInputs :
        /\ input' = p
        /\ a' = new(p[1][1], p[1][2], p[1][3], p[1][4], p[1][5], p[1][6], p[1][7])
        /\ b' = new(p[2][1], p[2][2], p[2][3], p[2][4], p[2][5], p[2][6], p[2][7])
    /\ ctor' = "new"
    /\ UNCHANGED <<overflow_checks, op, out, monotonic, watch, reads>>

CanQueryPair == a # None /\ b # None /\ op = "none"

DiffSecs ==
    /\ CanQueryPair
    /\ op' = "diff_secs"
    /\ out' = diff_secs(a[1], b[1])
    /\ UNCHANGED <<overflow_checks, a, b, ctor, input, monotonic, watch, reads>>

DiffNanos ==
    /\ CanQueryPair
    /\ op' = "diff_nanos"
    /\ out' = diff_nanos(a[1], b[1])
    /\ UNCHANGED <<overflow_checks, a, b, ctor, input, monotonic, watch, reads>>

DiffMs ==
    /\ CanQueryPair
    /\ op' = "diff_ms"
    /\ out' = diff_ms(a[1], b[1])
    /\ UNCHANGED <<overflow_checks, a, b, ctor, input, monotonic, watch, reads>>

DiffUs ==
    /\ CanQueryPair
    /\ op' = "diff_us"
    /\ out' = diff_us(a[1], b[1])
    /\ UNCHANGED <<overflow_checks, a, b, ctor, input, monotonic, watch, reads>>

Cmp ==
    /\ CanQueryPair
    /\ op' = "cmp"
    /\ out' = Ok(cmp(a[1], b[1]))
    /\ UNCHANGED <<overflow_checks, a, b, ctor, input, monotonic, watch, reads>>

RelativeTo ==
    /\ CanQueryPair
    /\ op' = "relative_to"
    /\ out' = relative_to(a[1], b[1])
    /\ UNCHANGED <<overflow_checks, a, b, ctor, input, monotonic, watch, reads>>

NextPair ==
    \/ NewPair
    \/ DiffSecs
    \/ DiffNanos
    \/ DiffMs
    \/ DiffUs
    \/ Cmp
    \/ RelativeTo

SpecPair == Init /\ [][NextPair]_vars

----------------------------------------------------------------------------
(* Two epoch values are converted, then the timestamps are compared.       *)

\* How many days on each side of a boundary the converted values are taken
\* from.
OrderWindow == 1

\* Days around the start, the end of February and the end of 1970, 2000 and
\* 65535, the last 16-bit year.
OrderDays ==
    { d \in { DaysBeforeYear(y) + off + k :
                y \in {1970, 2000, 65535}, off \in {0, 59, 365},
                k \in (-OrderWindow)..OrderWindow } : d >= 0 }

OrderSecs ==
    { SecsOf(d, tod) : d \in OrderDays, tod \in {0, 59, 3600, 86399} } \cup {U64Max}

OrderNanos ==
    { BigAdd(BigMul(SecsOf(d, tod), Nat2Big(1000000000)), Nat2Big(r)) :
        d \in OrderDays, tod \in {0, 86399}, r \in {0, 999999999} }
    \cup {U128Max}

FromEpochPair ==
    /\ ctor = "none"
    /\ \E s1 \in OrderSecs, s2 \in OrderSecs :
        /\ input' = <<s1, s2>>
        /\ a' = Some(from_epoch(s1))
        /\ b' = Some(from_epoch(s2))
    /\ ctor' = "from_epoch"
    /\ UNCHANGED <<overflow_checks, op, out, monotonic, watch, reads>>

FromEpochNanosPair ==
    /\ ctor = "none"
    /\ \E n1 \in OrderNanos, n2 \in OrderNanos :
        /\ input' = <<n1, n2>>
        /\ a' = Some(from_epoch_nanos(n1))
        /\ b' = Some(from_epoch_nanos(n2))
    /\ ctor' = "from_epoch_nanos"
    /\ UNCHANGED <<overflow_checks, op, out, monotonic, watch, reads>>

NextOrder ==
    \/ FromEpochPair
    \/ FromEpochNanosPair
    \/ Cmp

SpecOrder == Init /\ [][NextOrder]_vars

----------------------------------------------------------------------------
(* One stopwatch: the clock advances, the stopwatch is started once and    *)
(* queried any number of times.                                            *)

\* The last reading of the monotonic clock the model follows.
MaxInstant == 1700000000

\* By how much the clock advances between two events: 0.4 s, or 0.4 s and a
\* microsecond and a nanosecond.
TickSteps == {400000000, 400001001}

Tick ==
    /\ \E d \in TickSteps :
        /\ monotonic + d <= MaxInstant
        /\ monotonic' = monotonic + d
    /\ UNCHANGED <<overflow_checks, a, b, ctor, input, op, out, watch, reads>>

Start ==
    /\ watch = None
    /\ watch' = Some(Elapsed(monotonic))
    /\ UNCHANGED <<overflow_checks, a, b, ctor, input, op, out, monotonic, reads>>

\* reads with one more result, the last two kept.
Read(name, v) ==
    IF Len(reads) < 2 THEN Append(reads, [op |-> name, v |-> v])
    ELSE <<reads[2], [op |-> name, v |-> v]>>

ElapsedMs ==
    /\ watch # None
    /\ reads' = Read("elapsed_ms", elapsed_ms(watch[1], monotonic))
    /\ UNCHANGED <<overflow_checks, a, b, ctor, input, op, out, monotonic, watch>>

ElapsedUs ==
    /\ watch # None
    /\ reads' = Read("elapsed_us", elapsed_us(watch[1], monotonic))
    /\ UNCHANGED <<overflow_checks, a, b, ctor, input, op, out, monotonic, watch>>

ElapsedNanos ==
    /\ watch # None
    /\ reads' = Read("elapsed_nanos", elapsed_nanos(watch[1], monotonic))
    /\ UNCHANGED <<overflow_checks, a, b, ctor, input, op, out, monotonic, watch>>

NextElapsed ==
    \/ Tick
    \/ Start
    \/ ElapsedMs
    \/ ElapsedUs
    \/ ElapsedNanos

SpecElapsed == Init /\ [][NextElapsed]_vars

----------------------------------------------------------------------------
(* The claims.  Month lengths and validity are restated here from the      *)
(* Gregorian rule, independently of is_leap_year and days_in_month.        *)

GregorianLeap(y) == (y % 4 = 0 /\ y % 100 # 0) \/ y % 400 = 0

MonthLength(y, m) ==
    IF m = 2 THEN (IF GregorianLeap(y) THEN 29 ELSE 28)
    ELSE IF m \in {4, 6, 9, 11} THEN 30
    ELSE 31

ValidFields(y, m, d, h, mi, sec, ns) ==
    /\ m \in 1..12
    /\ d >= 1 /\ d <= MonthLength(y, m)
    /\ h <= 23
    /\ mi <= 59
    /\ sec <= 59
    /\ ns <= 999999999

ValidTime(t) ==
    ValidFields(t.year, t.month, t.day, t.hour, t.minute, t.second, t.nanosecond)

\* The first second after the supported domain: 65536-01-01T00:00:00.
SupportedSecs == SecsOf(DaysBeforeYear(65536), 0)

Zero == Signed(FALSE, <<>>)

\* C1: for every epoch-seconds value s whose civil year is at most 65535,
\* from_epoch(s).to_epoch_secs() returns s.
C1_EpochRoundTrip ==
    (ctor = "from_epoch" /\ op = "to_epoch_secs" /\ BigLess(input, SupportedSecs))
        => out = Ok(input)

\* The round trip of 951782400, which is 2000-02-29T00:00:00.
C1_Witness ==
    /\ ctor = "from_epoch"
    /\ op = "to_epoch_secs"
    /\ input = Nat2Big(951782400)
    /\ a[1].year = 2000 /\ a[1].month = 2 /\ a[1].day = 29
    /\ out = Ok(input)

\* C2: for every timestamp t accepted by new (any year 0-65535),
\* from_epoch_nanos(t.to_epoch_nanos()) returns t with all seven fields.
C2_InverseRoundTrip ==
    (ctor = "new" /\ a # None /\ op = "to_epoch_nanos")
        => (~out.panic /\ from_epoch_nanos(out.v) = a[1])

\* C3: every NanoTime a public constructor returns has month in 1..12, day in
\* 1..days_in_month(year, month), hour <= 23, minute <= 59, second <= 59 and
\* nanosecond <= 999999999.
C3_TypeInvariant == a # None => ValidTime(a[1])

\* C4: for every u64 s, from_epoch(s) has hour <= 23, minute <= 59,
\* second <= 59, month in 1..12 and day in 1..31.
C4_FieldValidity ==
    ctor = "from_epoch" =>
        /\ a[1].hour <= 23
        /\ a[1].minute <= 59
        /\ a[1].second <= 59
        /\ a[1].month >= 1 /\ a[1].month <= 12
        /\ a[1].day >= 1 /\ a[1].day <= 31

\* The largest u64, far past the 16-bit years.
C4_Witness ==
    /\ ctor = "from_epoch"
    /\ input = U64Max
    /\ a[1].month = 11 /\ a[1].day = 9 /\ a[1].hour = 7

\* C5: new returns None whenever at least one field is out of range (month
\* outside 1..12, day outside the month's length with 29 February only in
\* Gregorian leap years, hour > 23, minute > 59, second > 59 or
\* nanosecond > 999999999), whatever the other fields are.
C5_InvalidRejection ==
    (ctor = "new" /\ ~ValidFields(input[1], input[2], input[3], input[4],
                                  input[5], input[6], input[7]))
        => a = None

\* 29 February 1900, invalid only by the century rule, with every other
\* field in range.
C5_Witness ==
    /\ ctor = "new"
    /\ input = <<1900, 2, 29, 23, 59, 59, 999999999>>
    /\ a = None

\* C6: for every valid field tuple new returns Some, every accessor returns the
\* value passed in, millisecond() is nanosecond / 1000000 and microsecond() is
\* nanosecond / 1000.
C6_GetterRoundTrip ==
    (ctor = "new" /\ ValidFields(input[1], input[2], input[3], input[4],
                                 input[5], input[6], input[7]))
        => /\ a # None
           /\ op = "accessors" =>
                out = Ok([year |-> input[1], month |-> input[2], day |-> input[3],
                          hour |-> input[4], minute |-> input[5],
                          second |-> input[6], nanosecond |-> input[7],
                          millisecond |-> input[7] \div 1000000,
                          microsecond |-> input[7] \div 1000])

\* The accessors of 2024-02-29T23:59:59.999999999.
C6_Witness ==
    /\ ctor = "new"
    /\ input = <<2024, 2, 29, 23, 59, 59, 999999999>>
    /\ op = "accessors"
    /\ out.v.millisecond = 999 /\ out.v.microsecond = 999999

\* C7: for all valid timestamps a and b, a < b exactly when
\* a.to_epoch_nanos() < b.to_epoch_nanos(), and a == b exactly when the two
\* values are equal.
C7_OrderIsChronological ==
    op = "cmp" =>
        /\ ~to_epoch_nanos(a[1]).panic
        /\ ~to_epoch_nanos(b[1]).panic
        /\ (out.v = "Less") <=> BigLess(to_epoch_nanos(a[1]).v, to_epoch_nanos(b[1]).v)
        /\ (out.v = "Equal") <=> (to_epoch_nanos(a[1]).v = to_epoch_nanos(b[1]).v)

\* -x in the signed type of n limbs.
SignedNeg(x, n) == SignedSub(Ok(Zero), x, n)

Swapped(name) ==
    IF name = "diff_secs" THEN SignedNeg(diff_secs(b[1], a[1]), 4)
    ELSE IF name = "diff_ms" THEN SignedNeg(diff_ms(b[1], a[1]), 4)
    ELSE IF name = "diff_us" THEN SignedNeg(diff_us(b[1], a[1]), 8)
    ELSE SignedNeg(diff_nanos(b[1], a[1]), 8)

DiffOps == {"diff_secs", "diff_ms", "diff_us", "diff_nanos"}

\* C8: for all valid timestamps a and b, a.diff_secs(&b) == -(b.diff_secs(&a)),
\* and likewise for diff_ms, diff_us and diff_nanos.
C8_DiffAntisymmetry ==
    op \in DiffOps => (~out.panic /\ ~Swapped(op).panic /\ out = Swapped(op))

\* self - other on the epoch scale of the difference.
ScaleDiff(name) ==
    IF name = "diff_secs"
        THEN SSub(AsSigned(to_epoch_secs(a[1]).v, 4), AsSigned(to_epoch_secs(b[1]).v, 4))
    ELSE IF name = "diff_ms"
        THEN SSub(AsSigned(to_epoch_ms(a[1]).v, 4), AsSigned(to_epoch_ms(b[1]).v, 4))
    ELSE IF name = "diff_us"
        THEN SSub(AsSigned(to_epoch_us(a[1]).v, 8), AsSigned(to_epoch_us(b[1]).v, 8))
    ELSE SSub(AsSigned(to_epoch_nanos(a[1]).v, 8), AsSigned(to_epoch_nanos(b[1]).v, 8))

\* C9: each difference returns self - other on its epoch scale, so it is
\* positive when self is after other and negative when self is before other
\* (zero only when the two share the epoch value of that scale).
C9_DiffIsScaleDifference ==
    op \in DiffOps =>
        /\ ~out.panic
        /\ out.v = ScaleDiff(op)
        /\ cmp(a[1], b[1]) = "Greater" => ~out.v.neg
        /\ cmp(a[1], b[1]) = "Less" => (out.v.neg \/ out.v = Zero)
        /\ (op = "diff_nanos" /\ cmp(a[1], b[1]) # "Equal") => out.v # Zero

OnlyNanosDiffer(t, u) ==
    [t EXCEPT !.nanosecond = 0] = [u EXCEPT !.nanosecond = 0]

\* C10: for any two valid timestamps a and b that differ only in nanosecond,
\* a.to_epoch_secs() == b.to_epoch_secs() and a.diff_secs(&b) == 0.
C10_SecondsIgnoreNanos ==
    (op = "diff_secs" /\ OnlyNanosDiffer(a[1], b[1])) =>
        /\ ~out.panic
        /\ out.v = Zero
        /\ ~to_epoch_secs(a[1]).panic
        /\ to_epoch_secs(a[1]) = to_epoch_secs(b[1])

----------------------------------------------------------------------------
(* The reference time scale: seconds from 1970-01-01T00:00:00 counted with *)
(* the Gregorian month lengths, negative before the epoch.                 *)

RECURSIVE DaysBeforeMonth(_, _)
DaysBeforeMonth(y, m) ==
    IF m <= 1 THEN 0 ELSE DaysBeforeMonth(y, m - 1) + MonthLength(y, m - 1)

RefDays(t) == DaysBeforeYear(t.year) + DaysBeforeMonth(t.year, t.month) + t.day - 1

RefTod(t) == t.hour * 3600 + t.minute * 60 + t.second

\* RefDays(t) * 86400 + RefTod(t), as a wide signed value.
RefSecs(t) ==
    SAdd(Signed(RefDays(t) < 0,
                BigMul(Nat2Big(IF RefDays(t) < 0 THEN -RefDays(t) ELSE RefDays(t)),
                       Nat2Big(86400))),
         Signed(FALSE, Nat2Big(RefTod(t))))

\* The label the claim gives a difference of diff > 0 seconds.
BucketLabel(diff) ==
    IF BigLeq(diff, Nat2Big(59)) THEN BigDecimal(diff) \o "s"
    ELSE IF BigLeq(diff, Nat2Big(3599)) THEN BigDecimal(BigDiv(diff, 60)) \o "m"
    ELSE IF BigLeq(diff, Nat2Big(86399)) THEN BigDecimal(BigDiv(diff, 3600)) \o "h"
    ELSE BigDecimal(BigDiv(diff, 86400)) \o "d"

RelativeText(t, u) ==
    IF RefSecs(t) = RefSecs(u) THEN "just now"
    ELSE IF SLess(RefSecs(t), RefSecs(u))
         THEN BucketLabel(SSub(RefSecs(u), RefSecs(t)).mag) \o " ago"
    ELSE "in " \o BucketLabel(SSub(RefSecs(t), RefSecs(u)).mag)

\* C11: with diff the absolute difference of the epoch seconds of self and
\* other, a.relative_to(&b) is "just now" for diff = 0, otherwise the label
\* "{diff}s" (1-59), "{diff/60}m" (60-3599), "{diff/3600}h" (3600-86399) or
\* "{diff/86400}d" (from 86400), followed by " ago" when self is before other
\* and preceded by "in " when self is after other.
C11_RelativeBucketing ==
    op = "relative_to" => (~out.panic /\ out.v = RelativeText(a[1], b[1]))

----------------------------------------------------------------------------
(* Text the claims expect, written digit by digit.                         *)

TwoDigits(n) == Digit((n \div 10) % 10) \o Digit(n % 10)
ThreeDigits(n) == Digit((n \div 100) % 10) \o TwoDigits(n)
FourDigits(n) == TwoDigits(n \div 100) \o TwoDigits(n)

RECURSIVE Pow10(_)
Pow10(k) == IF k = 0 THEN 1 ELSE 10 * Pow10(k - 1)

\* The first p of the nine digits of ns, for 1 <= p <= 9: ns without its
\* last 9 - p digits, p digits wide.
RECURSIVE LeadingDigits(_, _)
LeadingDigits(n, p) ==
    IF p = 0 THEN "" ELSE LeadingDigits(n \div 10, p - 1) \o Digit(n % 10)

Fraction(ns, p) == LeadingDigits(ns \div Pow10(9 - p), p)

ClockText(t) == TwoDigits(t.hour) \o ":" \o TwoDigits(t.minute) \o ":" \o TwoDigits(t.second)

IsDigits(s) == \A i \in 1..Len(s) : \E d \in 0..9 : SubSeq(s, i, i) = Digit(d)

\* C12: with p = min(precision, 9), datetime_fmt(precision) is date() + " " +
\* HH:MM:SS when p = 0, and for p > 0 that text followed by "." and the first
\* p digits of the nanosecond zero-padded to 9 digits (truncated, not
\* rounded); so a precision above 9 gives the text of precision 9.
C12_DatetimeFmt ==
    op = "datetime_fmt" =>
        LET p == IF out.v.precision > 9 THEN 9 ELSE out.v.precision
        IN  /\ p = 0 => out.v.text = date(a[1]) \o " " \o ClockText(a[1])
            /\ p > 0 => out.v.text = date(a[1]) \o " " \o ClockText(a[1]) \o "."
                                        \o Fraction(a[1].nanosecond, p)
            /\ out.v.precision > 9 => out.v.text = datetime_fmt(a[1], 9)

\* 999999999 ns at precision 3: the digits are cut, not rounded up.
C12_Witness ==
    /\ ctor = "new"
    /\ input = <<2024, 2, 29, 23, 59, 59, 999999999>>
    /\ op = "datetime_fmt"
    /\ out.v.precision = 3
    /\ out.v.text = "2024-02-29 23:59:59.999"

\* C13: for every valid timestamp, date() is YYYY-MM-DD: 10 characters, digits
\* but for "-" at (0-based) positions 4 and 7, when year <= 9999, and a wider
\* year field with every digit kept above 9999; Display is the 12 characters
\* HH:MM:SS.mmm with mmm = nanosecond / 1000000; datetime() is date() + " " +
\* Display.
C13_FixedWidth ==
    (op = "format" /\ ValidTime(a[1])) =>
        /\ a[1].year <= 9999 =>
            /\ Len(out.v.date) = 10
            /\ out.v.date = FourDigits(a[1].year) \o "-" \o TwoDigits(a[1].month)
                                \o "-" \o TwoDigits(a[1].day)
        /\ a[1].year > 9999 =>
            /\ Len(out.v.date) = 11
            /\ out.v.date = Digit(a[1].year \div 10000) \o FourDigits(a[1].year % 10000)
                                \o "-" \o TwoDigits(a[1].month) \o "-" \o TwoDigits(a[1].day)
        /\ IsDigits(SubSeq(out.v.date, 1, Len(out.v.date) - 6))
        /\ SubSeq(out.v.date, Len(out.v.date) - 5, Len(out.v.date) - 5) = "-"
        /\ IsDigits(SubSeq(out.v.date, Len(out.v.date) - 4, Len(out.v.date) - 3))
        /\ SubSeq(out.v.date, Len(out.v.date) - 2, Len(out.v.date) - 2) = "-"
        /\ IsDigits(SubSeq(out.v.date, Len(out.v.date) - 1, Len(out.v.date)))
        /\ Len(out.v.display) = 12
        /\ out.v.display = ClockText(a[1]) \o "." \o ThreeDigits(a[1].nanosecond \div 1000000)
        /\ out.v.datetime = out.v.date \o " " \o out.v.display

\* The last representable instant: a five-digit year.
C13_Witness ==
    /\ ctor = "new"
    /\ input = <<65535, 12, 31, 23, 59, 59, 999999999>>
    /\ op = "format"
    /\ out.v.date = "65535-12-31"
    /\ out.v.display = "23:59:59.999"
    /\ out.v.datetime = "65535-12-31 23:59:59.999"

\* C14: for every valid timestamp t, from_epoch_ms(t.to_epoch_ms()) is t with
\* the nanosecond cut to whole milliseconds, and from_epoch_us(t.to_epoch_us())
\* is t with the nanosecond cut to whole microseconds; the other fields are
\* unchanged.
C14_TruncatingRoundTrip ==
    /\ (a # None /\ ValidTime(a[1]) /\ op = "to_epoch_ms") =>
          /\ ~out.panic
          /\ from_epoch_ms(out.v)
               = [a[1] EXCEPT !.nanosecond = (a[1].nanosecond \div 1000000) * 1000000]
    /\ (a # None /\ ValidTime(a[1]) /\ op = "to_epoch_us") =>
          /\ ~out.panic
          /\ from_epoch_us(out.v)
               = [a[1] EXCEPT !.nanosecond = (a[1].nanosecond \div 1000) * 1000]

\* C15: for every epoch-seconds value s in the supported domain, from_epoch(s)
\* is the proleptic Gregorian date-time of s: valid fields whose day count
\* from 1970-01-01 (Gregorian month lengths and leap rule) is s / 86400 and
\* whose time of day is s % 86400, with nanosecond 0; in particular
\* 0 -> 1970-01-01 00:00:00, 951782400 -> 2000-02-29 and
\* 1000000000 -> 2001-09-09 01:46:40.
C15_CalendarCorrectness ==
    (ctor = "from_epoch" /\ BigLess(input, SupportedSecs)) =>
        /\ ValidTime(a[1])
        /\ RefDays(a[1]) = Big2Nat(BigDiv(input, 86400))
        /\ RefTod(a[1]) = BigMod(input, 86400)
        /\ a[1].nanosecond = 0
        /\ input = <<>> => a[1] = NanoTime(1970, 1, 1, 0, 0, 0, 0)
        /\ input = Nat2Big(951782400) => a[1] = NanoTime(2000, 2, 29, 0, 0, 0, 0)
        /\ input = Nat2Big(1000000000) => a[1] = NanoTime(2001, 9, 9, 1, 46, 40, 0)

\* One billion seconds.
C15_Witness ==
    /\ ctor = "from_epoch"
    /\ input = Nat2Big(1000000000)
    /\ a = Some(NanoTime(2001, 9, 9, 1, 46, 40, 0))

\* Two successive queries of the same kind do not decrease, and no result is
\* negative.
MonotonicReads ==
    /\ \A i \in 1..Len(reads) : reads[i].v >= 0
    /\ (Len(reads) = 2 /\ reads[1].op = reads[2].op) => reads[2].v >= reads[1].v

\* C16: on one Elapsed instance, with a non-decreasing monotonic clock, two
\* successive queries of elapsed_ms (likewise elapsed_us, elapsed_nanos)
\* return non-negative values, the later at least the earlier, and the stored
\* start instant never changes after start().
C16_StopwatchMonotonic ==
    /\ []MonotonicReads
    /\ [][watch # None => watch' = watch]_vars

\* Two millisecond readings 0.4 s and 1.2 s after the start.
C16_Witness ==
    /\ watch # None
    /\ reads = <<[op |-> "elapsed_ms", v |-> 400], [op |-> "elapsed_ms", v |-> 1200]>>

\* Whether the intermediates of epoch_to_date fit their types: the i64 values
\* are below 2^63 and the u32 values and differences are not negative.
StepsFit(st) ==
    /\ Len(st.z) <= 4 /\ (Len(st.z) = 4 => st.z[4] < 32768)
    /\ Len(st.y) <= 4 /\ (Len(st.y) = 4 => st.y[4] < 32768)
    /\ st.era >= 0
    /\ st.doe >= 0 /\ st.yoe_sub1 >= 0 /\ st.yoe_sub2 >= 0 /\ st.yoe >= 0
    /\ st.doy >= 0 /\ st.mp >= 0 /\ st.day_sub >= 0 /\ st.month_sub >= 0

\* Whether the 8-bit output fields are stored without truncation.
SmallFieldsFit(st) ==
    /\ st.month >= 0 /\ st.month <= 255
    /\ st.day >= 0 /\ st.day <= 255
    /\ st.hour <= 255 /\ st.minute <= 255 /\ st.second <= 255

\* C17: for every u64 secs, every intermediate of epoch_to_date (z, era, doe,
\* yoe, y, doy, mp) and every output field (year in 16 bits, month, day, hour,
\* minute, second in 8 bits) is representable in its type, so that nothing is
\* wrapped or truncated.
C17_NoOverflow ==
    ctor = "from_epoch" =>
        /\ StepsFit(epoch_to_date_steps(input))
        /\ SmallFieldsFit(epoch_to_date_steps(input))
        /\ Len(epoch_to_date_steps(input).year) <= 1
        /\ a[1] = NanoTime(Big2Nat(epoch_to_date_steps(input).year),
                           epoch_to_date_steps(input).month,
                           epoch_to_date_steps(input).day,
                           epoch_to_date_steps(input).hour,
                           epoch_to_date_steps(input).minute,
                           epoch_to_date_steps(input).second, 0)

\* C17 with the limit of the 16-bit year: for every u64 secs no intermediate of epoch_to_date
\* overflows and month, day, hour, minute and second are stored untruncated;
\* the year fits its 16 bits exactly when secs is before 65536-01-01T00:00:00,
\* and from there on the stored year is the civil year modulo 65536.
C17_NoOverflowButYear ==
    ctor = "from_epoch" =>
        /\ StepsFit(epoch_to_date_steps(input))
        /\ SmallFieldsFit(epoch_to_date_steps(input))
        /\ (Len(epoch_to_date_steps(input).year) <= 1) <=> BigLess(input, SupportedSecs)
        /\ a[1] = NanoTime(Big2Nat(BigTrunc(epoch_to_date_steps(input).year, 1)),
                           epoch_to_date_steps(input).month,
                           epoch_to_date_steps(input).day,
                           epoch_to_date_steps(input).hour,
                           epoch_to_date_steps(input).minute,
                           epoch_to_date_steps(input).second, 0)

\* The first second past the 16-bit years: the civil year 65536 is stored as 0.
C17_Witness ==
    /\ ctor = "from_epoch"
    /\ input = SupportedSecs
    /\ epoch_to_date_steps(input).year = Nat2Big(65536)
    /\ a[1] = NanoTime(0, 1, 1, 0, 0, 0, 0)

\* The reference epoch value of t at a scale of per units a second, with sub
\* the sub-second part in those units: RefSecs(t) * per + sub.
RefScale(t, per, sub) ==
    SAdd(Signed(RefSecs(t).neg, BigMul(RefSecs(t).mag, Nat2Big(per))),
         Signed(FALSE, Nat2Big(sub)))

\* An unsigned result that is the reference value, neither a panic nor wrapped.
Exact(r, ref) == ~r.panic /\ ~ref.neg /\ r.v = ref.mag

EpochExact(t) ==
    /\ Exact(to_epoch_secs(t), RefSecs(t))
    /\ Exact(to_epoch_ms(t), RefScale(t, 1000, t.nanosecond \div 1000000))
    /\ Exact(to_epoch_us(t), RefScale(t, 1000000, t.nanosecond \div 1000))
    /\ Exact(to_epoch_nanos(t), RefScale(t, 1000000000, t.nanosecond))

RefDiff(name) ==
    IF name = "diff_secs" THEN SSub(RefSecs(a[1]), RefSecs(b[1]))
    ELSE IF name = "diff_ms"
        THEN SSub(RefScale(a[1], 1000, a[1].nanosecond \div 1000000),
                  RefScale(b[1], 1000, b[1].nanosecond \div 1000000))
    ELSE IF name = "diff_us"
        THEN SSub(RefScale(a[1], 1000000, a[1].nanosecond \div 1000),
                  RefScale(b[1], 1000000, b[1].nanosecond \div 1000))
    ELSE SSub(RefScale(a[1], 1000000000, a[1].nanosecond),
              RefScale(b[1], 1000000000, b[1].nanosecond))

\* C18: for every timestamp new accepts (any year 0-65535, dates before
\* 1970-01-01 included), to_epoch_secs and the operations built on it
\* (to_epoch_ms, to_epoch_us, to_epoch_nanos, diff_*, relative_to) return a
\* result, with no overflow, underflow, wrap-around or failure.
C18_Totality ==
    /\ (ctor = "new" /\ a # None /\ b # None /\ op = "cmp") =>
          (EpochExact(a[1]) /\ EpochExact(b[1]))
    /\ op \in DiffOps => (~out.panic /\ out.v = RefDiff(op))
    /\ op = "relative_to" => ~out.panic

\* C19: for every valid timestamp t, t.to_epoch_us() is t.to_epoch_nanos() /
\* 1000, t.to_epoch_ms() is t.to_epoch_nanos() / 1000000 and t.to_epoch_secs()
\* is t.to_epoch_nanos() / 1000000000, each rounded down.
C19_CrossGranularity ==
    (a # None /\ ValidTime(a[1]) /\ op = "to_epoch_nanos") =>
        /\ ~out.panic
        /\ to_epoch_us(a[1]) = Ok(BigDiv(out.v, 1000))
        /\ to_epoch_ms(a[1]) = Ok(BigDiv(out.v, 1000000))
        /\ to_epoch_secs(a[1]) = Ok(BigDiv(out.v, 1000000000))

\* What the sub-second constructor ctor, called with input, and the matching
\* to_epoch query must satisfy: per units a second, scale nanoseconds a unit.
ForwardRoundTrip(per, scale) ==
    /\ out = Ok(input)
    /\ a[1].nanosecond = BigMod(input, per) * scale
    /\ Len(BigDiv(input, per)) <= 4 =>
          [a[1] EXCEPT !.nanosecond = 0] = from_epoch(BigDiv(input, per))

\* C20: for every input v of the constructor's integer type,
\* from_epoch_ms(v).to_epoch_ms() = v, from_epoch_us(v).to_epoch_us() = v and
\* from_epoch_nanos(v).to_epoch_nanos() = v, the stored nanosecond is the
\* sub-second remainder in nanoseconds and the other fields are those of
\* from_epoch of the whole seconds.
C20_SubSecondRoundTrip ==
    /\ (ctor = "from_epoch_ms" /\ op = "to_epoch_ms") => ForwardRoundTrip(1000, 1000000)
    /\ (ctor = "from_epoch_us" /\ op = "to_epoch_us") => ForwardRoundTrip(1000000, 1000)
    /\ (ctor = "from_epoch_nanos" /\ op = "to_epoch_nanos") =>
          ForwardRoundTrip(1000000000, 1)

\* Whether the whole seconds of input, at per units a second, are in the
\* supported domain (civil year at most 65535).
InDomain(per) == BigLess(BigDiv(input, per), SupportedSecs)

\* C20 within the supported domain: the same, for every input whose whole seconds are in the
\* supported domain (before 65536-01-01T00:00:00).
C20_SubSecondRoundTripInDomain ==
    /\ (ctor = "from_epoch_ms" /\ op = "to_epoch_ms" /\ InDomain(1000))
          => ForwardRoundTrip(1000, 1000000)
    /\ (ctor = "from_epoch_us" /\ op = "to_epoch_us" /\ InDomain(1000000))
          => ForwardRoundTrip(1000000, 1000)
    /\ (ctor = "from_epoch_nanos" /\ op = "to_epoch_nanos" /\ InDomain(1000000000))
          => ForwardRoundTrip(1000000000, 1)

\* The last millisecond of 65535-12-31.
C20_Witness ==
    /\ ctor = "from_epoch_ms"
    /\ op = "to_epoch_ms"
    /\ a[1] = NanoTime(65535, 12, 31, 23, 59, 59, 999000000)
    /\ out = Ok(input)

\* C21: for all epoch-seconds values s1 < s2, from_epoch(s1) < from_epoch(s2) in
\* the derived field-wise order, and for all n1 < n2,
\* from_epoch_nanos(n1) < from_epoch_nanos(n2).
C21_OrderPreservation ==
    (op = "cmp" /\ ctor \in {"from_epoch", "from_epoch_nanos"}
        /\ BigLess(input[1], input[2]))
        => out.v = "Less"

\* C21 within the supported domain: the same for s1 < s2 and n1 < n2 whose
\* larger value is before 65536-01-01T00:00:00.
C21_OrderPreservationInDomain ==
    /\ (op = "cmp" /\ ctor = "from_epoch"
           /\ BigLess(input[1], input[2]) /\ BigLess(input[2], SupportedSecs))
          => out.v = "Less"
    /\ (op = "cmp" /\ ctor = "from_epoch_nanos"
           /\ BigLess(input[1], input[2])
           /\ BigLess(BigDiv(input[2], 1000000000), SupportedSecs))
          => out.v = "Less"

\* Across a year's end every field but the year decreases.
C21_Witness ==
    /\ ctor = "from_epoch"
    /\ op = "cmp"
    /\ a = Some(NanoTime(1999, 12, 31, 23, 59, 59, 0))
    /\ b = Some(NanoTime(2000, 1, 1, 0, 0, 0, 0))
    /\ BigLess(input[1], input[2])
    /\ out.v = "Less"

====
